---- MODULE Spec2Model ----
(***************************************************************************)
(* Model of the docs-view update / cache / pin pipeline.                   *)
(*                                                                         *)
(* Two providers share the update() algorithm:                             *)
(*   variant = "position" : DocsViewViewProvider with a position pin       *)
(*                          (src/src/docsView.ts, lines 17-396)            *)
(*   variant = "boolean"  : the providers built on BaseViewViewProvider    *)
(*                          (src/src/docsView.ts 474-669,                  *)
(*                           src/src/signatureInfoView.ts)                 *)
(* The panel script (src/media/main.js) is the variables panel and        *)
(* received, run by SpecPanel; the cache key functions are run by SpecKey. *)
(***************************************************************************)
EXTENDS Naturals, Integers, Sequences, FiniteSets, TLC

VARIABLES
    variant,            \* which provider class this instance is
    activeTextEditor,   \* vscode.window.activeTextEditor: NoEditor or [document, active]
    version,            \* document.version of every open document
    provider,           \* the provider object's fields (_view, _currentCacheKey, ...)
    fetches,            \* per loading entry: the suspended updatePromise, or Idle
    called,             \* how the last step ended and the message it posted
    panel,              \* the panel script's state (main.js)
    received,           \* the messages the panel received since it loaded
    keyA, keyB, keyEq,  \* inputs and result of cacheKeyEquals (SpecKey)
    races,              \* per loading entry: its fetch, token, timer and progress
    raceLoading,        \* this._loading in SpecRace
    arg, result,        \* argument and result of a function run on its own
    colorTheme,         \* the setting workbench.colorTheme
    codeHighlighter     \* the CodeHighlighter object and its pending reloads

vars == <<variant, activeTextEditor, version, provider, fetches, called,
          panel, received, keyA, keyB, keyEq, races, raceLoading, arg, result,
          colorTheme, codeHighlighter>>

ctlVars == <<variant, activeTextEditor, version, provider, fetches, called>>
panelVars == <<panel, received>>
keyVars == <<keyA, keyB, keyEq>>
raceVars == <<races, raceLoading>>
fnVars == <<arg, result>>
themeVars == <<colorTheme, codeHighlighter>>

(***************************************************************************)
(* Bounds                                                                  *)
(***************************************************************************)
MaxVersion == 2
MaxInFlight == 2
MaxReceived == 4
MaxKeyVersion == 2
MaxRaces == 2
MaxPinCoord == 2
MaxPinText == 2
MaxCodeLen == 2
MaxSignatures == 3
MaxHovers == 2
MaxBatch == 2
MaxBatchCoord == 1
MaxReloads == 2

Docs == {"d1", "d2"}
\* The open documents have one line of two characters.
Lines == {0}
Chars == {0, 1}
LineLength == Cardinality(Chars)
Position == [line : Lines, character : Chars]
Slots == 1..MaxInFlight

NoEditor == [none |-> TRUE]
Undefined == [undefined |-> TRUE]
NoMsg == [type |-> "none"]
Idle == [phase |-> "idle"]

Editors == [document : Docs, active : Position]

(***************************************************************************)
(* The editor side, as far as the provider reads it                        *)
(***************************************************************************)

\* document.uri of the open documents (a vscode.Uri: scheme and path).
DocUri(d) == [scheme |-> "file", path |-> IF d = "d1" THEN "/a" ELSE "/b"]

\* Uri.toString(): scheme, "://", path.
UriToString(u) == u.scheme \o "://" \o u.path

\* The text of the open documents: a line holds either one word that spans
\* it or blanks only; word lines and blank lines alternate, "d1" starts with
\* a word line and "d2" with a blank line.
IsWordLine(d, line) == (line + (IF d = "d1" THEN 0 ELSE 1)) % 2 = 0

\* document.getWordRangeAtPosition(position)
WordRangeAt(d, obj, position) ==
    IF IsWordLine(d, position.line)
    THEN [obj |-> obj,
          start |-> [line |-> position.line, character |-> 0],
          end |-> [line |-> position.line, character |-> LineLength]]
    ELSE Undefined

\* The result of 'vscode.executeHoverProvider' for (uri, position): one hover
\* for the word at the position, none where there is no word.
HoverAt(d, position) ==
    IF IsWordLine(d, position.line)
    THEN << [uri |-> DocUri(d), line |-> position.line] >>
    ELSE << >>

\* Renderer.render(document, hovers): markup for the hovers, '' for none.
Render(hovers) ==
    [i \in 1..Len(hovers) |-> [tag |-> "p", of |-> hovers[i]]]

(***************************************************************************)
(* Cache keys (baseView.ts 71-130, docsView.ts 408-468)                    *)
(***************************************************************************)

\* const cacheKeyNone = { type: 'none' }: one object for the whole module.
cacheKeyNone == [type |-> "none", obj |-> 0]

\* new DocumentCacheKey(url, version, wordRange); obj is the identity of the
\* new object (and of the Range object created for it).
DocumentCacheKey(obj, url, ver, wordRange) ==
    [type |-> "document", obj |-> obj, url |-> url, version |-> ver, wordRange |-> wordRange]

\* Object identities are kept canonical: cacheKeyNone is object 0, the
\* committed DocumentCacheKey (and its Range) is object 1, and a key that
\* createCacheKey has just constructed is object 2 until it is committed.
Committed(key) ==
    IF key.type = "none" THEN key
    ELSE [key EXCEPT !.obj = 1,
                     !.wordRange = IF @ = Undefined THEN @ ELSE [@ EXCEPT !.obj = 1]]

\* a === b on objects.
SameObject(a, b) == a.obj = b.obj

\* Range.isEqual that looks at the start only.
RangeIsEqual_StartOnly(r1, r2) ==
    /\ r1.start.line = r2.start.line
    /\ r1.start.character = r2.start.character

\* Range.isEqual
RangeIsEqual(r1, r2) ==
    /\ r1.start.line = r2.start.line
    /\ r1.start.character = r2.start.character
    /\ r1.end.line = r2.end.line
    /\ r1.end.character = r2.end.character

\* other.wordRange === this.wordRange
SameRangeObject(r1, r2) ==
    \/ (r1 = Undefined /\ r2 = Undefined)
    \/ (r1 # Undefined /\ r2 # Undefined /\ r1.obj = r2.obj)

\* DocumentCacheKey.equals that compares the word ranges by identity only.
DocumentCacheKeyEquals_Identity(this, other) ==
    IF UriToString(this.url) # UriToString(other.url) THEN FALSE
    ELSE IF this.version # other.version THEN FALSE
    ELSE SameRangeObject(other.wordRange, this.wordRange)

\* DocumentCacheKey.equals(other)
DocumentCacheKeyEquals(this, other) ==
    IF UriToString(this.url) # UriToString(other.url) THEN FALSE
    ELSE IF this.version # other.version THEN FALSE
    ELSE IF SameRangeObject(other.wordRange, this.wordRange) THEN TRUE
    ELSE IF other.wordRange = Undefined \/ this.wordRange = Undefined THEN FALSE
    ELSE RangeIsEqual(this.wordRange, other.wordRange)

\* cacheKeyEquals without its `a === b` test.
cacheKeyEquals_NoIdentity(a, b) ==
    IF a.type # b.type THEN FALSE
    ELSE IF a.type = "none" \/ b.type = "none" THEN FALSE
    ELSE DocumentCacheKeyEquals(a, b)

cacheKeyEquals(a, b) ==
    IF SameObject(a, b) THEN TRUE
    ELSE IF a.type # b.type THEN FALSE
    ELSE IF a.type = "none" \/ b.type = "none" THEN FALSE
    ELSE DocumentCacheKeyEquals(a, b)

createCacheKey(editor, ver) ==
    IF editor = NoEditor THEN cacheKeyNone
    ELSE DocumentCacheKey(2, DocUri(editor.document), ver[editor.document],
                          WordRangeAt(editor.document, 2, editor.active))

(***************************************************************************)
(* Pin translation of the position-pin provider (docsView.ts 127-257)      *)
(***************************************************************************)

\* Texts of a content change: sequences over an ordinary character and "\n".
TextChars == {"a", "\n"}

\* A split that finds no line break.
Split_NoBreaks(text) == << text >>

\* text.split('\n')
RECURSIVE Split(_)
Split(text) ==
    IF \A i \in 1..Len(text) : text[i] # "\n" THEN << text >>
    ELSE LET i == CHOOSE k \in 1..Len(text) :
                      text[k] = "\n" /\ \A j \in 1..(k - 1) : text[j] # "\n"
         IN << SubSeq(text, 1, i - 1) >> \o Split(SubSeq(text, i + 1, Len(text)))

\* A range check that leaves out the range's first character.
isInRange_AfterStart(range, position) ==
    /\ position # Undefined
    /\ position.line >= range.start.line
    /\ position.line <= range.end.line
    /\ position.character > range.start.character
    /\ position.character <= range.end.character

isInRange(range, position) ==
    IF position = Undefined THEN FALSE
    ELSE /\ position.line >= range.start.line
         /\ position.line <= range.end.line
         /\ position.character >= range.start.character
         /\ \/ position.character <= range.end.character
            \/ /\ range.start.character = 0 /\ range.end.character = 0
               /\ range.start.line # range.end.line
               /\ range.start.line = position.line

\* The body of the forEach callback of getTranslationTo, for one change.
TranslateChange(acc, position, change) ==
    LET startLine == change.range.start.line
        startCharacter == change.range.start.character
        endLine == change.range.end.line
        endCharacter == change.range.end.character
        currentLine == position.line
        currentCharacter == position.character
        isAddingText == change.rangeLength = 0
        lines == Split(change.text)
        changeStartsWithNewline == Len(lines[1]) = 0
        isEditingLinesBeforeCurrentLine ==
            \/ startLine < currentLine
            \/ (startLine = currentLine /\ ~changeStartsWithNewline)
        diff == IF isAddingText /\ isEditingLinesBeforeCurrentLine
                THEN Len(Split(change.text)) - 1
                ELSE endLine - startLine
        withLines == [acc EXCEPT !.lineDelta = @ + (IF isAddingText THEN diff ELSE 0 - diff)]
        changeEndsWithNewline == Len(lines[Len(lines)]) = 0
    IN  IF startLine > currentLine THEN acc
        ELSE IF isInRange(change.range, position)
             THEN [acc EXCEPT !.pinWasOverwritten = TRUE]
        ELSE IF startLine # currentLine \/ currentCharacter <= endCharacter THEN withLines
        ELSE [withLines EXCEPT !.characterDelta =
                 @ + (IF isAddingText
                      THEN (IF changeEndsWithNewline THEN 0 ELSE Len(change.text))
                      ELSE startCharacter - endCharacter)]

\* A forEach that visits the first change only.
TranslateFrom_First(acc, position, contentChanges, i) ==
    IF i > Len(contentChanges) THEN acc
    ELSE TranslateChange(acc, position, contentChanges[i])

\* A forEach that stops at the first change that overwrites the pin.
TranslateFrom_ShortCircuit(acc, position, contentChanges, i) ==
    LET RECURSIVE From(_, _)
        From(a, k) ==
            IF k > Len(contentChanges) \/ a.pinWasOverwritten THEN a
            ELSE From(TranslateChange(a, position, contentChanges[k]), k + 1)
    IN  From(acc, i)

RECURSIVE TranslateFrom(_, _, _, _)
TranslateFrom(acc, position, contentChanges, i) ==
    IF i > Len(contentChanges) THEN acc
    ELSE TranslateFrom(TranslateChange(acc, position, contentChanges[i]),
                       position, contentChanges, i + 1)

getTranslationTo(position, contentChanges) ==
    TranslateFrom([lineDelta |-> 0, characterDelta |-> 0, pinWasOverwritten |-> FALSE],
                  position, contentChanges, 1)

\* Position.translate(lineDelta, characterDelta); the Position constructor
\* throws on a negative line or character.
PositionTranslate(position, lineDelta, characterDelta) ==
    [line |-> position.line + lineDelta, character |-> position.character + characterDelta]

\* A Position constructor that accepts every line and character.
TranslateThrows_Never(position, lineDelta, characterDelta) == FALSE

TranslateThrows(position, lineDelta, characterDelta) ==
    \/ position.line + lineDelta < 0
    \/ position.character + characterDelta < 0

(***************************************************************************)
(* update() and the updatePromise (docsView.ts 298-384 and 577-663,        *)
(* signatureInfoView.ts 142-232)                                           *)
(***************************************************************************)

NoContentBody == "No documentation found at current cursor position"

\* An absent document (documents are named by strings).
NoDocument == "undefined"

NoPin == [position |-> Undefined, document |-> NoDocument]

\* An updateTitle() that leaves the description alone.
updateTitle_Skip(p) == p

\* updateTitle(): the description of the resolved view.
updateTitle(p) ==
    IF ~p._view THEN p
    ELSE [p EXCEPT !.description =
              IF (IF variant = "position" THEN p._pin.position # Undefined ELSE p._pinned)
              THEN "(pinned)" ELSE ""]

\* update() that does not cancel the entry that is loading.
CancelLoading_Skip(p, f) == f

\* if (this._loading) { this._loading.cts.cancel(); this._loading = undefined; }
\* A loading entry whose promise has rejected has no continuation left.
CancelLoading(p, f) ==
    IF p._loading # 0 /\ f[p._loading] # Idle
    THEN [f EXCEPT ![p._loading].cancelled = TRUE]
    ELSE f

\* The loading entry object created by update(): the first one not in use.
NewEntry(f) == CHOOSE s \in Slots : f[s] = Idle /\ \A t \in Slots : f[t] = Idle => s <= t

\* The arguments getActiveHoverData / getHoversAtCurrentPositionInEditor /
\* getSignatureHelpAtCurrentPositionInEditor pass to the provider command.
ProviderQuery(p, editor) ==
    IF variant = "position"
    THEN [document |-> IF p._pin.document # NoDocument THEN p._pin.document ELSE editor.document,
          position |-> IF p._pin.position # Undefined THEN p._pin.position ELSE editor.active]
    ELSE [document |-> editor.document, position |-> editor.active]

\* A fetch whose token is hit by the cancellation of its predecessor.
StartFetch_Cancelled(p, editor) ==
    [phase |-> "provider", cancelled |-> TRUE, stale |-> FALSE,
     query |-> IF editor = NoEditor THEN Undefined ELSE ProviderQuery(p, editor)]

\* getHtmlContentForActiveEditor up to its first await: without an active
\* editor it returns '' at once, otherwise it waits for the provider.
StartFetch(p, editor) ==
    IF editor = NoEditor
    THEN [phase |-> "microtask", cancelled |-> FALSE, stale |-> FALSE,
          query |-> Undefined]
    ELSE [phase |-> "provider", cancelled |-> FALSE, stale |-> FALSE,
          query |-> ProviderQuery(p, editor)]

\* History: the fetches in flight when update() starts another one are
\* marked stale.
MarkStale(f) == [s \in Slots |-> IF f[s] = Idle THEN Idle ELSE [f[s] EXCEPT !.stale = TRUE]]

\* An update() whose forced calls pass the pinned test.
Update_ForcedThroughPin(p0, f0, editor, ver, ignoreCache) ==
    IF ~p0._view THEN [p |-> p0, f |-> f0, outcome |-> "noView"]
    ELSE LET p1 == updateTitle(p0) IN
         IF variant = "boolean" /\ p1._pinned /\ ~ignoreCache
         THEN [p |-> p1, f |-> f0, outcome |-> "pinned"]
         ELSE LET newCacheKey == createCacheKey(editor, ver) IN
              IF ~ignoreCache /\ cacheKeyEquals(p1._currentCacheKey, newCacheKey)
              THEN [p |-> p1, f |-> f0, outcome |-> "cacheHit"]
              ELSE LET f1 == MarkStale(CancelLoading(p1, f0))
                       loadingEntry == NewEntry(f1)
                   IN  [p |-> [p1 EXCEPT !._currentCacheKey = Committed(newCacheKey),
                                         !._loading = loadingEntry],
                        f |-> [f1 EXCEPT ![loadingEntry] = StartFetch(p1, editor)],
                        outcome |-> "fetch"]

\* update(ignoreCache), up to the point where it awaits.
Update(p0, f0, editor, ver, ignoreCache) ==
    IF ~p0._view THEN [p |-> p0, f |-> f0, outcome |-> "noView"]
    ELSE LET p1 == updateTitle(p0) IN
         IF variant = "boolean" /\ p1._pinned
         THEN [p |-> p1, f |-> f0, outcome |-> "pinned"]
         ELSE LET newCacheKey == createCacheKey(editor, ver) IN
              IF ~ignoreCache /\ cacheKeyEquals(p1._currentCacheKey, newCacheKey)
              THEN [p |-> p1, f |-> f0, outcome |-> "cacheHit"]
              ELSE LET f1 == MarkStale(CancelLoading(p1, f0))
                       loadingEntry == NewEntry(f1)
                   IN  [p |-> [p1 EXCEPT !._currentCacheKey = Committed(newCacheKey),
                                         !._loading = loadingEntry],
                        f |-> [f1 EXCEPT ![loadingEntry] = StartFetch(p1, editor)],
                        outcome |-> "fetch"]

\* An updatePromise that checks neither the token nor this._loading.
Superseded_Never(p, f, s) == FALSE

\* The two checks of the updatePromise after its await: the token was
\* cancelled, or another entry has started loading since.
Superseded(p, f, s) == f[s].cancelled \/ p._loading # s

\* An updatePromise that posts and leaves this._loading as it is.
Settle_KeepLoading(p, f, s, html) ==
    IF Superseded(p, f, s) \/ ~p._view
    THEN [p |-> p, f |-> [f EXCEPT ![s] = Idle], msg |-> NoMsg, stale |-> FALSE,
          outcome |-> "discarded"]
    ELSE [p |-> p, f |-> [f EXCEPT ![s] = Idle], outcome |-> "posted",
          stale |-> f[s].stale,
          msg |-> IF Len(html) > 0
                  THEN [type |-> "update", body |-> html, updateMode |-> p._updateMode]
                  ELSE [type |-> "noContent", body |-> NoContentBody,
                        updateMode |-> p._updateMode]]

\* The updatePromise after getHtmlContentForActiveEditor returned html.
Settle(p, f, s, html) ==
    LET f1 == [f EXCEPT ![s] = Idle] IN
    IF Superseded(p, f, s)
    THEN [p |-> p, f |-> f1, msg |-> NoMsg, stale |-> FALSE, outcome |-> "discarded"]
    ELSE LET p1 == [p EXCEPT !._loading = 0] IN
         IF ~p._view
         THEN [p |-> p1, f |-> f1, msg |-> NoMsg, stale |-> FALSE, outcome |-> "noView"]
         ELSE IF Len(html) > 0
         THEN [p |-> p1, f |-> f1, outcome |-> "posted", stale |-> f[s].stale,
               msg |-> [type |-> "update", body |-> html, updateMode |-> p._updateMode]]
         ELSE [p |-> p1, f |-> f1, outcome |-> "posted", stale |-> f[s].stale,
               msg |-> [type |-> "noContent", body |-> NoContentBody,
                        updateMode |-> p._updateMode]]

\* The promise continuations that are ready when a handler returns: the
\* updatePromise of an update() that found no active editor.
RECURSIVE RunMicrotasks(_, _, _)
RunMicrotasks(p, f, posted) ==
    IF \A s \in Slots : f[s].phase # "microtask" THEN [p |-> p, f |-> f, posted |-> posted]
    ELSE LET s == CHOOSE t \in Slots : f[t].phase = "microtask"
             c == Settle(p, f, s, << >>)
         IN  RunMicrotasks(c.p, c.f, IF c.msg # NoMsg
                                     THEN [msg |-> c.msg, stale |-> c.stale]
                                     ELSE posted)

\* What `called` keeps of a step: the outcome if it is one of these, the
\* handler if its update() was a cache hit, the message posted, and whether
\* the fetch that posted it was stale.
RecordedOutcomes == {"cacheHit", "discarded", "rejected"}
Label(outcome) == IF outcome \in RecordedOutcomes THEN outcome ELSE "none"

NotCalled == [op |-> "none", outcome |-> "none", msg |-> NoMsg, stale |-> FALSE]

Record(outcome) == called' = [NotCalled EXCEPT !.outcome = Label(outcome)]

Settled(c) ==
    called' = [op |-> "none", outcome |-> Label(c.outcome), msg |-> c.msg, stale |-> c.stale]

\* Handler op has run update() with result r; the ready continuations follow.
Finish(op, r) ==
    LET d == RunMicrotasks(r.p, r.f, [msg |-> NoMsg, stale |-> FALSE]) IN
    /\ provider' = d.p
    /\ fetches' = d.f
    /\ called' = [op |-> IF r.outcome = "cacheHit" THEN op ELSE "none",
                  outcome |-> Label(r.outcome),
                  msg |-> d.posted.msg, stale |-> d.posted.stale]

HasFreeEntry == \E s \in Slots : fetches[s] = Idle

(***************************************************************************)
(* Content changes offered by the editor                                   *)
(***************************************************************************)

Before(a, b) == a.line < b.line \/ (a.line = b.line /\ a.character <= b.character)

Ranges == {r \in [start : Position, end : Position] : Before(r.start, r.end)}

Texts == {<< >>, << "a" >>, << "\n" >>}

\* TextDocumentContentChangeEvent.rangeLength: the number of characters
\* replaced (a line has LineLength characters and its line break).
RangeLength(range) ==
    (range.end.line - range.start.line) * (LineLength + 1)
        + range.end.character - range.start.character

Changes ==
    {c \in [range : Ranges, text : Texts, rangeLength : 0..(Cardinality(Lines) * (LineLength + 1))] :
        /\ c.rangeLength = RangeLength(c.range)
        /\ (c.rangeLength > 0 \/ Len(c.text) > 0)}

Batches == {<< >>} \cup {<< c >> : c \in Changes}

(***************************************************************************)
(* Pin commands                                                            *)
(***************************************************************************)

\* updatePin(value) of the position-pin provider: the new object is never
\* identical to this._pin, so the early return is never taken.
updatePin(p, f, value, editor, ver) ==
    Update([p EXCEPT !._pin = value], f, editor, ver, FALSE)

\* updatePinned(value) of the boolean-pin providers.
updatePinned(p, f, value, editor, ver) ==
    IF p._pinned = value THEN [p |-> p, f |-> f, outcome |-> "same"]
    ELSE Update([p EXCEPT !._pinned = value], f, editor, ver, FALSE)

pin(p, f, editor, ver) ==
    IF variant = "boolean" THEN updatePinned(p, f, TRUE, editor, ver)
    ELSE IF editor = NoEditor THEN [p |-> p, f |-> f, outcome |-> "noEditor"]
    ELSE updatePin(p, f, [position |-> editor.active, document |-> editor.document],
                   editor, ver)

unpin(p, f, editor, ver) ==
    IF variant = "boolean" THEN updatePinned(p, f, FALSE, editor, ver)
    ELSE updatePin(p, f, NoPin, editor, ver)

\* updatePinPosition(e) of the position-pin provider.
updatePinPosition(p, f, d, contentChanges, editor, ver) ==
    IF \/ p._pin.position = Undefined
       \/ DocUri(d).path # DocUri(p._pin.document).path
       \/ Len(contentChanges) = 0
    THEN [p |-> p, f |-> f, outcome |-> "return"]
    ELSE LET t == getTranslationTo(p._pin.position, contentChanges) IN
         IF t.pinWasOverwritten THEN unpin(p, f, editor, ver)
         ELSE IF TranslateThrows(p._pin.position, t.lineDelta, t.characterDelta)
         THEN [p |-> p, f |-> f, outcome |-> "throw"]
         ELSE updatePin(p, f,
                        [p._pin EXCEPT !.position =
                            PositionTranslate(@, t.lineDelta, t.characterDelta)],
                        editor, ver)

\* The onDidChangeTextDocument listener of the position-pin provider:
\* updatePinPosition(e); update().  The boolean-pin providers have none.
onDidChangeTextDocument(p, f, d, contentChanges, editor, ver) ==
    IF variant = "boolean" THEN [p |-> p, f |-> f, outcome |-> "none"]
    ELSE LET r1 == updatePinPosition(p, f, d, contentChanges, editor, ver) IN
         IF r1.outcome = "throw" THEN r1
         ELSE LET r2 == Update(r1.p, r1.f, editor, ver, FALSE) IN
              [p |-> r2.p, f |-> r2.f,
               outcome |-> IF r1.outcome = "fetch" THEN "fetch" ELSE r2.outcome]

\* The model keeps a pin inside the document.
PinInDocument(p) == p._pin.position = Undefined \/ p._pin.position \in Position

(***************************************************************************)
(* The provider: initial state and handlers                                *)
(***************************************************************************)

UpdateModes == {"live", "sticky"}

\* The state after the constructor: updateConfiguration() has read the
\* update mode and update() has returned for want of a view.
CtlInit ==
    /\ variant \in {"position", "boolean"}
    /\ activeTextEditor \in Editors \cup {NoEditor}
    /\ version = [d \in Docs |-> 1]
    /\ provider \in {[_view |-> FALSE, description |-> "",
                      _currentCacheKey |-> cacheKeyNone, _loading |-> 0,
                      _pin |-> NoPin, _pinned |-> FALSE, _updateMode |-> m] :
                     m \in UpdateModes}
    /\ fetches = [s \in Slots |-> Idle]
    /\ called = NotCalled

ResolveWebviewView ==
    /\ ~provider._view
    /\ HasFreeEntry
    /\ Finish("resolve", Update(updateTitle([provider EXCEPT !._view = TRUE]), fetches,
                     activeTextEditor, version, TRUE))
    /\ UNCHANGED <<variant, activeTextEditor, version, panelVars, keyVars, raceVars, fnVars, themeVars>>

DidDispose ==
    /\ provider._view
    /\ provider' = [provider EXCEPT !._view = FALSE, !.description = ""]
    /\ Record("none")
    /\ UNCHANGED <<variant, activeTextEditor, version, fetches, panelVars, keyVars, raceVars, fnVars, themeVars>>

\* onDidChangeVisibility with the view visible again.
DidChangeVisibility ==
    /\ provider._view
    /\ HasFreeEntry
    /\ Finish("visibility", Update(provider, fetches, activeTextEditor, version, TRUE))
    /\ UNCHANGED <<variant, activeTextEditor, version, panelVars, keyVars, raceVars, fnVars, themeVars>>

NeedsRender ==
    /\ HasFreeEntry
    /\ Finish("render", Update(provider, fetches, activeTextEditor, version, TRUE))
    /\ UNCHANGED <<variant, activeTextEditor, version, panelVars, keyVars, raceVars, fnVars, themeVars>>

DidChangeTextEditorSelection(position) ==
    /\ activeTextEditor # NoEditor
    /\ activeTextEditor.active # position
    /\ HasFreeEntry
    /\ activeTextEditor' = [activeTextEditor EXCEPT !.active = position]
    /\ Finish("selection", Update(provider, fetches, activeTextEditor', version, FALSE))
    /\ UNCHANGED <<variant, version, panelVars, keyVars, raceVars, fnVars, themeVars>>

DidChangeActiveTextEditor(editor) ==
    /\ editor # activeTextEditor
    /\ (editor # NoEditor /\ activeTextEditor # NoEditor)
           => editor.document # activeTextEditor.document
    /\ HasFreeEntry
    /\ activeTextEditor' = editor
    /\ Finish("editor", Update(provider, fetches, editor, version, FALSE))
    /\ UNCHANGED <<variant, version, panelVars, keyVars, raceVars, fnVars, themeVars>>

DidChangeTextDocument(d, contentChanges) ==
    /\ version[d] < MaxVersion
    /\ HasFreeEntry
    /\ version' = [version EXCEPT ![d] = @ + 1]
    /\ LET r == onDidChangeTextDocument(provider, fetches, d, contentChanges,
                                        activeTextEditor, version')
       IN  PinInDocument(r.p) /\ Finish("text", r)
    /\ UNCHANGED <<variant, activeTextEditor, panelVars, keyVars, raceVars, fnVars, themeVars>>

DidChangeConfiguration(mode) ==
    /\ provider._updateMode # mode
    /\ provider' = [provider EXCEPT !._updateMode = mode]
    /\ Record("none")
    /\ UNCHANGED <<variant, activeTextEditor, version, fetches, panelVars, keyVars, raceVars, fnVars, themeVars>>

Pin ==
    /\ HasFreeEntry
    /\ Finish("pin", pin(provider, fetches, activeTextEditor, version))
    /\ UNCHANGED <<variant, activeTextEditor, version, panelVars, keyVars, raceVars, fnVars, themeVars>>

Unpin ==
    /\ HasFreeEntry
    /\ Finish("unpin", unpin(provider, fetches, activeTextEditor, version))
    /\ UNCHANGED <<variant, activeTextEditor, version, panelVars, keyVars, raceVars, fnVars, themeVars>>

\* What getHtmlContentForActiveEditor returns once the provider has answered.
HtmlContent(fetch) ==
    LET hovers == HoverAt(fetch.query.document, fetch.query.position) IN
    IF fetch.cancelled \/ Len(hovers) = 0 THEN << >> ELSE Render(hovers)

\* The rest of getHtmlContentForActiveEditor once the provider has answered:
\* '' for a cancelled token or no hovers, otherwise the render, which waits
\* for the highlighter unless that is loaded already.
ProviderReturns(s, highlighterReady) ==
    /\ fetches[s].phase = "provider"
    /\ LET html == HtmlContent(fetches[s])
       IN  IF Len(html) > 0 /\ ~highlighterReady
           THEN /\ fetches' = [fetches EXCEPT ![s].phase = "render"]
                /\ provider' = provider
                /\ Record("rendering")
           ELSE LET c == Settle(provider, fetches, s, html) IN
                /\ fetches' = c.f
                /\ provider' = c.p
                /\ Settled(c)
    /\ UNCHANGED <<variant, activeTextEditor, version, panelVars, keyVars, raceVars, fnVars, themeVars>>

RenderDone(s) ==
    /\ fetches[s].phase = "render"
    /\ LET c == Settle(provider, fetches, s, Render(HoverAt(fetches[s].query.document,
                                                           fetches[s].query.position))) IN
        /\ fetches' = c.f
        /\ provider' = c.p
        /\ Settled(c)
    /\ UNCHANGED <<variant, activeTextEditor, version, panelVars, keyVars, raceVars, fnVars, themeVars>>

\* The provider command rejects: the updatePromise rejects with it, and
\* this._loading keeps the entry.
ProviderThrows(s) ==
    /\ fetches[s].phase = "provider"
    /\ fetches' = [fetches EXCEPT ![s] = Idle]
    /\ IF Superseded(provider, fetches, s) THEN Record("none")
       ELSE called' = [NotCalled EXCEPT !.op = "ProviderThrows",
                                        !.outcome = Label("rejected")]
    /\ UNCHANGED <<variant, activeTextEditor, version, provider, panelVars, keyVars, raceVars, fnVars, themeVars>>

(***************************************************************************)
(* The panel script (media/main.js 3-56)                                   *)
(***************************************************************************)

\* The documentation bodies the panel is sent.
HtmlBodies == {Render(<< [uri |-> DocUri(d), line |-> 0] >>) : d \in Docs}

Messages ==
    [type : {"update"}, body : HtmlBodies, updateMode : UpdateModes]
        \cup [type : {"noContent"}, body : {NoContentBody}, updateMode : UpdateModes]

\* A JavaScript value that is a string, or undefined.
Str(v) == [isString |-> TRUE, value |-> v]
JsUndefined == [isString |-> FALSE]

\* Assigning main.innerHTML: a string is parsed as markup, undefined is
\* converted to the text "undefined".
InnerHtml(v) == IF v.isString THEN v.value ELSE << [text |-> "undefined"] >>

\* `<p class="no-content">${message}</p>`
NoContentMarkup(message) ==
    << [tag |-> "p", class |-> "no-content",
        text |-> IF message.isString THEN message.value ELSE "undefined"] >>

NoState == [none |-> TRUE]

\* updateContent(contents)
updateContent(pn, contents) ==
    [pn EXCEPT !.innerHTML = InnerHtml(contents),
               !.state = [body |-> contents, noContent |-> FALSE]]

\* setNoContent(message)
setNoContent(pn, message) ==
    [pn EXCEPT !.innerHTML = NoContentMarkup(message),
               !.state = [body |-> JsUndefined, noContent |-> TRUE]]

\* The script's start: it restores what vscode.getState() returns.
PanelLoad(state) ==
    LET blank == [innerHTML |-> << >>, state |-> state, hasUpdated |-> FALSE] IN
    IF state = NoState THEN blank
    ELSE IF state.body.isString THEN updateContent(blank, JsUndefined)
    ELSE IF state.noContent THEN setNoContent(blank, JsUndefined)
    ELSE blank

\* A listener that shows every 'noContent' message.
ShowsNoContent_Always(hasUpdated, updateMode) == TRUE

\* A listener that shows a 'noContent' message only before the first message.
ShowsNoContent_First(hasUpdated, updateMode) == ~hasUpdated

\* The condition under which a 'noContent' message replaces the content.
ShowsNoContent(hasUpdated, updateMode) == ~hasUpdated \/ updateMode = "live"

\* The 'message' listener.
OnMessage(pn, message) ==
    IF message.type = "update"
    THEN [updateContent(pn, Str(message.body)) EXCEPT !.hasUpdated = TRUE]
    ELSE IF message.type = "noContent"
    THEN [(IF ShowsNoContent(pn.hasUpdated, message.updateMode)
           THEN setNoContent(pn, Str(message.body)) ELSE pn)
          EXCEPT !.hasUpdated = TRUE]
    ELSE pn

PanelInit ==
    /\ panel = PanelLoad(NoState)
    /\ received = << >>

PanelReceive(message) ==
    /\ Len(received) < MaxReceived
    /\ panel' = OnMessage(panel, message)
    /\ received' = Append(received, message)
    /\ UNCHANGED <<ctlVars, keyVars, raceVars, fnVars, themeVars>>

\* The webview is torn down and created again: the script starts anew with
\* the persisted state.
PanelReload ==
    /\ panel' = PanelLoad(panel.state)
    /\ received' = << >>
    /\ UNCHANGED <<ctlVars, keyVars, raceVars, fnVars, themeVars>>

(***************************************************************************)
(* Cache keys compared on their own                                        *)
(***************************************************************************)

KeyUris == [scheme : {"file", "untitled"}, path : {"/a", "/b"}]
KeyCoords == {0, 1}
KeyPositions == [line : KeyCoords, character : KeyCoords]

\* The keys that can exist as object `obj`, with the Range made for them.
KeyInputs(obj) ==
    {DocumentCacheKey(obj, url, ver, wordRange) :
        url \in KeyUris, ver \in 1..MaxKeyVersion,
        wordRange \in {Undefined}
            \cup [obj : {obj}, start : KeyPositions, end : KeyPositions]}
        \cup {cacheKeyNone}

NotCompared == [done |-> FALSE, result |-> FALSE, created |-> FALSE]

KeyIdle ==
    /\ keyA = cacheKeyNone
    /\ keyB = cacheKeyNone
    /\ keyEq = NotCompared

\* Two keys: the committed one and either that same object or another one;
\* or the keys of two createCacheKey(editor) calls, the first one committed.
KeyInit ==
    \/ /\ keyA \in KeyInputs(1)
       /\ keyB \in KeyInputs(2) \cup {keyA}
       /\ keyEq = NotCompared
    \/ \E editor1 \in Editors \cup {NoEditor}, editor2 \in Editors \cup {NoEditor},
          ver1 \in [Docs -> 1..MaxKeyVersion], ver2 \in [Docs -> 1..MaxKeyVersion] :
          /\ keyA = Committed(createCacheKey(editor1, ver1))
          /\ keyB = createCacheKey(editor2, ver2)
          /\ keyEq = [NotCompared EXCEPT !.created = TRUE]

\* cacheKeyEquals(keyA, keyB) is evaluated.
KeyCompare ==
    /\ ~keyEq.done
    /\ keyEq' = [keyEq EXCEPT !.done = TRUE, !.result = cacheKeyEquals(keyA, keyB)]
    /\ UNCHANGED <<ctlVars, panelVars, keyA, keyB, raceVars, fnVars, themeVars>>

(***************************************************************************)
(* The race of the updatePromise with the 250 ms timer                     *)
(* (docsView.ts 312-318 and 347-357)                                       *)
(***************************************************************************)

RaceSlots == 1..MaxRaces

\* update() has created the loadingEntry, started the updatePromise and set
\* the timer.  atFire is history: what the timer found when it fired.
NewRace ==
    [fetch |-> "loading", cancelled |-> FALSE, timer |-> "pending",
     progress |-> "none", atFire |-> "unfired"]

RaceIdle ==
    /\ races = [s \in RaceSlots |-> Idle]
    /\ raceLoading = 0

\* The first loading entry not in use.
RaceEntry(f) ==
    CHOOSE s \in RaceSlots : f[s] = Idle /\ \A t \in RaceSlots : f[t] = Idle => s <= t

\* update() gets past the cache check: it cancels the entry that is
\* loading and starts the next one.
RaceUpdate ==
    /\ \E s \in RaceSlots : races[s] = Idle
    /\ LET f1 == CancelLoading([_loading |-> raceLoading], races)
           loadingEntry == RaceEntry(f1)
       IN  /\ races' = [f1 EXCEPT ![loadingEntry] = NewRace]
           /\ raceLoading' = loadingEntry
    /\ UNCHANGED <<ctlVars, panelVars, keyVars, fnVars, themeVars>>

\* withProgress ends when the promise it was given settles.
ProgressEnds(progress) == IF progress = "shown" THEN "ended" ELSE progress

\* The updatePromise resolves: dropped at one of its two checks, or it
\* clears this._loading and posts.
RaceSettles(s) ==
    /\ races[s] # Idle
    /\ races[s].fetch = "loading"
    /\ LET dropped == Superseded([_loading |-> raceLoading], races, s) IN
       /\ races' = [races EXCEPT ![s].fetch = IF dropped THEN "dropped" ELSE "committed",
                                 ![s].progress = ProgressEnds(@)]
       /\ raceLoading' = IF dropped THEN raceLoading ELSE 0
    /\ UNCHANGED <<ctlVars, panelVars, keyVars, fnVars, themeVars>>

\* The updatePromise rejects: this._loading keeps the entry.
RaceRejects(s) ==
    /\ races[s] # Idle
    /\ races[s].fetch = "loading"
    /\ races' = [races EXCEPT ![s].fetch = "rejected", ![s].progress = ProgressEnds(@)]
    /\ UNCHANGED <<raceLoading, ctlVars, panelVars, keyVars, fnVars, themeVars>>

\* A timer continuation that does not look at the token.
ShowsProgress_Always(r) == TRUE

\* if (loadingEntry.cts.token.isCancellationRequested) { return; }
ShowsProgress(r) == ~r.cancelled

\* The timer fires: unless the token is cancelled, withProgress is called
\* with the updatePromise and lasts until that has settled.
RaceTimerFires(s) ==
    /\ races[s] # Idle
    /\ races[s].timer = "pending"
    /\ races' = [races EXCEPT
          ![s].timer = "fired",
          ![s].atFire = IF races[s].cancelled THEN "cancelled"
                        ELSE IF races[s].fetch = "loading" THEN "loading"
                        ELSE "settled",
          ![s].progress = IF ShowsProgress(races[s])
                          THEN (IF races[s].fetch = "loading" THEN "shown" ELSE "ended")
                          ELSE @]
    /\ UNCHANGED <<raceLoading, ctlVars, panelVars, keyVars, fnVars, themeVars>>

\* Both promises of the race have settled: nothing refers to the timer and
\* the updatePromise any more.
RaceCollect(s) ==
    /\ races[s] # Idle
    /\ races[s].fetch # "loading"
    /\ races[s].timer = "fired"
    /\ races' = [races EXCEPT ![s] = Idle]
    /\ UNCHANGED <<raceLoading, ctlVars, panelVars, keyVars, fnVars, themeVars>>

\* No function is being run on its own.
FnIdle ==
    /\ arg = << >>
    /\ result = << >>

(***************************************************************************)
(* updatePinPosition run on single edits of the pinned document            *)
(***************************************************************************)

PinCoords == 0..MaxPinCoord
PinPositions == [line : PinCoords, character : PinCoords]

\* The pinned document: MaxPinCoord + 1 lines of MaxPinCoord ordinary
\* characters, each followed by its line break.
PinLineLength == MaxPinCoord

PinRanges == {r \in [start : PinPositions, end : PinPositions] :
                 \/ r.start.line < r.end.line
                 \/ (r.start.line = r.end.line /\ r.start.character <= r.end.character)}

PinTexts == UNION {[1..n -> TextChars] : n \in 0..MaxPinText}

\* The number of characters between start and end in the pinned document.
PinRangeLength(range) ==
    (range.end.line - range.start.line) * (PinLineLength + 1)
        + range.end.character - range.start.character

\* The content changes the editor reports: a range is replaced by a text,
\* at least one of them not empty.
PinChanges ==
    {[range |-> r, text |-> t, rangeLength |-> PinRangeLength(r)] :
        r \in PinRanges, t \in PinTexts} \
    {c \in [range : PinRanges, text : {<< >>}, rangeLength : {0}] : TRUE}

NotRun == [ran |-> FALSE]

\* A resolved, pinned position-pin provider with no active editor.
PinnedProvider(position) ==
    [_view |-> TRUE, description |-> "(pinned)",
     _currentCacheKey |-> cacheKeyNone, _loading |-> 0,
     _pin |-> [position |-> position, document |-> "d1"],
     _pinned |-> FALSE, _updateMode |-> "live"]

PinInit ==
    /\ arg \in [position : PinPositions, change : PinChanges]
    /\ result = NotRun

\* updatePinPosition(e) for an event on the pinned document with the one
\* content change.
PinTranslate ==
    /\ result = NotRun
    /\ LET r == updatePinPosition(PinnedProvider(arg.position), fetches, "d1",
                                  << arg.change >>, NoEditor, version)
       IN  result' = [ran |-> TRUE, outcome |-> r.outcome, _pin |-> r.p._pin,
                      description |-> r.p.description]
    /\ UNCHANGED <<arg, ctlVars, panelVars, keyVars, raceVars, themeVars>>

(***************************************************************************)
(* updatePinPosition run on events with several edits, one event after     *)
(* the other                                                               *)
(***************************************************************************)

BatchCoords == 0..MaxBatchCoord

\* The content changes of an event: changes of the pinned document whose
\* ranges lie in its first lines and characters.
BatchChanges ==
    {c \in PinChanges :
        \A q \in {c.range.start, c.range.end} :
            q.line \in BatchCoords /\ q.character \in BatchCoords}

\* e.contentChanges
PinBatches == UNION {[1..n -> BatchChanges] : n \in 0..MaxBatch}

BatchInit ==
    /\ arg \in [position : PinPositions, changes : PinBatches]
    /\ result = NotRun

\* updatePinPosition(e) with the pin at position and e.contentChanges = changes.
BatchResult(position, changes) ==
    LET r == updatePinPosition(PinnedProvider(position), fetches, "d1",
                               changes, NoEditor, version)
    IN  [ran |-> TRUE, outcome |-> r.outcome, _pin |-> r.p._pin,
         description |-> r.p.description]

\* The first text-change event of the pinned document.
BatchTranslate ==
    /\ result = NotRun
    /\ result' = BatchResult(arg.position, arg.changes)
    /\ UNCHANGED <<arg, ctlVars, panelVars, keyVars, raceVars, themeVars>>

\* A later text-change event, with one edit: it finds the pin where the
\* last event left it.
BatchTranslateAgain(change) ==
    /\ result # NotRun
    /\ result._pin.position \in PinPositions
    /\ arg' = [position |-> result._pin.position, changes |-> << change >>]
    /\ result' = BatchResult(result._pin.position, << change >>)
    /\ UNCHANGED <<ctlVars, panelVars, keyVars, raceVars, themeVars>>

\* pin() after unpin() or after an edit cleared the pin: the pin is the
\* cursor position of the editor, and no edit has met it yet.
BatchPin(position) ==
    /\ result # NotRun
    /\ result._pin.position = Undefined
    /\ arg' = [position |-> position, changes |-> << >>]
    /\ result' = BatchResult(position, << >>)
    /\ UNCHANGED <<ctlVars, panelVars, keyVars, raceVars, themeVars>>

(***************************************************************************)
(* The text-change listener of the position-pin provider, run on one edit  *)
(* of the pinned document, and a forced update() after it                  *)
(***************************************************************************)

ChangeInit ==
    /\ arg \in [position : PinPositions, change : PinChanges, active : Position]
    /\ result = NotRun

\* The active editor shows the pinned document.
ChangeEditor == [document |-> "d1", active |-> arg.active]

\* What a call of update() or of a listener leaves: the provider, the
\* loading entries and the query of the fetch it started, if it started one.
Left(step, r) ==
    [ran |-> TRUE, step |-> step, outcome |-> r.outcome, p |-> r.p, f |-> r.f,
     query |-> IF r.outcome = "fetch" THEN r.f[r.p._loading].query ELSE Undefined]

\* onDidChangeTextDocument: updatePinPosition(e); update().
TextChange ==
    /\ result = NotRun
    /\ result' = Left("event",
                      onDidChangeTextDocument(PinnedProvider(arg.position), fetches, "d1",
                                              << arg.change >>, ChangeEditor,
                                              [version EXCEPT !["d1"] = @ + 1]))
    /\ UNCHANGED <<arg, ctlVars, panelVars, keyVars, raceVars, themeVars>>

\* needsRender after the event: update(/* force */ true).
UpdateAfterChange ==
    /\ result # NotRun
    /\ result.step = "event"
    /\ result' = Left("forced",
                      Update(result.p, result.f, ChangeEditor,
                             [version EXCEPT !["d1"] = @ + 1], TRUE))
    /\ UNCHANGED <<arg, ctlVars, panelVars, keyVars, raceVars, themeVars>>

(***************************************************************************)
(* The highlight callback (codeHighlighter.ts 61-79 and 119-126, the       *)
(* second CodeHighlighter 61-76)                                           *)
(***************************************************************************)

\* Language names: none, one the table maps to a grammar, one the table
\* lists without a grammar, one that is unknown.  "" stands for an absent
\* or empty language.
LanguageNames == {"", "ts", "regexp", "zz"}

\* getLanguageId(inId): the grammar of the table entry named inId.
getLanguageId(inId) == IF inId = "ts" THEN "typescript" ELSE ""

\* The grammars the highlighting engine has loaded.
EngineLanguages == {"ts", "typescript"}

Codes == UNION {[1..n -> TextChars] : n \in 0..MaxCodeLen}

RawCode(code) == [html |-> FALSE, text |-> code, lang |-> ""]

Returned(value) == [threw |-> FALSE, value |-> value]
Thrown == [threw |-> TRUE, value |-> RawCode(<< >>)]

\* highlighter.codeToHtml(code, lang) of an engine that works or fails.
codeToHtml(engine, code, lang) ==
    IF engine = "throws" \/ lang \notin EngineLanguages THEN Thrown
    ELSE Returned([html |-> TRUE, text |-> code, lang |-> lang])

\* A try block without its catch.
Caught_Rethrow(attempt, code) == attempt

\* try { return attempt } catch (err) { /* noop */ } return code
Caught(attempt, code) == IF attempt.threw THEN Returned(RawCode(code)) ELSE attempt

\* The callback getHighlighter(document) returns, applied to (code,
\* inputLanguage).  a.highlighter tells whether this._highlighter had a value.
HighlightCallback(a) ==
    LET language == IF a.inputLanguage # "" THEN a.inputLanguage ELSE a.languageId IN
    IF language # "" /\ a.highlighter
    THEN IF a.version = "getLanguageId"
         THEN Caught(IF getLanguageId(language) # ""
                     THEN codeToHtml(a.engine, a.code, getLanguageId(language))
                     ELSE Returned(RawCode(a.code)),
                     a.code)
         ELSE Caught(codeToHtml(a.engine, a.code, language), a.code)
    ELSE Returned(RawCode(a.code))

HighlightInit ==
    /\ arg \in [version : {"getLanguageId", "lang"}, code : Codes,
                inputLanguage : LanguageNames, languageId : LanguageNames,
                highlighter : BOOLEAN, engine : {"works", "throws"}]
    /\ result = NotRun

\* The code renderer of render() calls highlight(code, infostring ?? '').
Highlight ==
    /\ result = NotRun
    /\ LET r == HighlightCallback(arg)
       IN  result' = [ran |-> TRUE, threw |-> r.threw, value |-> r.value,
                      rendered |-> ~r.threw]
    /\ UNCHANGED <<arg, ctlVars, panelVars, keyVars, raceVars, themeVars>>

(***************************************************************************)
(* renderSignature (renderer.ts 112-151, the second Renderer 46-77)        *)
(***************************************************************************)

\* A string is a sequence of pieces; a piece of signature number `index`
\* remembers the signature it was made from.
Piece(kind, index, text) == [kind |-> kind, index |-> index, text |-> text]

Rule == << Piece("rule", 0, "\n___\n") >>

SignatureLabels == {"f", "g"}

\* documentation: absent, the empty string, a string, a MarkdownString, a
\* string holding an HTML element that is not safe.
Documentations == {"none", "empty", "string", "markdown", "<script>"}

SignatureInformation == [label : SignatureLabels, documentation : Documentations]

SignatureHelps ==
    [version : {"renderer", "getMarkdown"},
     signatures : UNION {[1..n -> SignatureInformation] : n \in 0..MaxSignatures},
     activeSignature : 0..MaxSignatures]

\* if (signatureInformation.documentation)
HasDocumentation(signatureInformation) ==
    signatureInformation.documentation \notin {"none", "empty"}

\* What the forEach callback pushes for signatures[index] (index from 0).
Pushes(signatureHelp, index) ==
    LET signatureInformation == signatureHelp.signatures[index + 1]
        label == Piece("label", index, signatureInformation.label)
        documentation == << Piece("documentation", index, signatureInformation.documentation) >>
    IN  IF signatureHelp.version = "renderer"
        THEN << Rule \o << label >> >>
             \o (IF HasDocumentation(signatureInformation)
                 THEN << Rule, documentation, Rule >> ELSE << >>)
        ELSE << << Piece("counter", index, "n/m"),
                   Piece(IF signatureHelp.activeSignature = index
                         THEN "active" ELSE "inactive", index, ""),
                   label >> >>
             \o (IF HasDocumentation(signatureInformation)
                 THEN << documentation >> ELSE << >>)

\* The array the forEach fills: activeSignature (toActive) or parts.
RECURSIVE PushedFrom(_, _, _)
PushedFrom(signatureHelp, index, toActive) ==
    IF index >= Len(signatureHelp.signatures) THEN << >>
    ELSE (IF (signatureHelp.activeSignature = index) = toActive
          THEN Pushes(signatureHelp, index) ELSE << >>)
         \o PushedFrom(signatureHelp, index + 1, toActive)

\* An order that puts the active signature last.
Spread_ActiveLast(activeSignature, parts) == parts \o activeSignature

\* [...activeSignature, ...parts]
Spread(activeSignature, parts) == activeSignature \o parts

\* parts.join(separator)
RECURSIVE Join(_, _)
Join(parts, separator) ==
    IF Len(parts) = 0 THEN << >>
    ELSE IF Len(parts) = 1 THEN parts[1]
    ELSE parts[1] \o separator \o Join(Tail(parts), separator)

\* marked(markdown, ...): the markup of each piece, in the order of the
\* markdown.
Marked(markdown) == [i \in 1..Len(markdown) |-> [html |-> markdown[i]]]

\* The option sanitize: true of marked: an HTML element of the markdown is
\* escaped.
SanitizeOption(html) ==
    [i \in 1..Len(html) |->
        IF html[i].html.text = "<script>"
        THEN [html |-> [html[i].html EXCEPT !.text = "&lt;script&gt;"]]
        ELSE html[i]]

renderSignature(signatureHelp) ==
    IF Len(signatureHelp.signatures) = 0 THEN << >>
    ELSE LET parts == Spread(PushedFrom(signatureHelp, 0, TRUE),
                             PushedFrom(signatureHelp, 0, FALSE))
         IN  IF signatureHelp.version = "renderer"
             THEN SanitizeOption(Marked(Join(parts, << >>)))
             ELSE SanitizeOption(Marked(Join(<< << >> >> \o parts, Rule)))

SignatureInit ==
    /\ arg \in SignatureHelps
    /\ result = NotRun

RenderSignature ==
    /\ result = NotRun
    /\ result' = [ran |-> TRUE, value |-> renderSignature(arg)]
    /\ UNCHANGED <<arg, ctlVars, panelVars, keyVars, raceVars, themeVars>>

(***************************************************************************)
(* Renderer.render (renderer.ts 31-64 and 93-110)                          *)
(***************************************************************************)

\* A string is a sequence of pieces: a blank, a word, an HTML element that
\* is not safe.
Blank == " "
StringValues == {<< >>, << Blank >>, << "a" >>}

\* hover.contents entries: a string, a MarkdownString, a {language, value}
\* pair.
Contents ==
    [type : {"string"}, value : StringValues]
        \cup [type : {"markdown"}, value : {<< >>, << "<script>" >>}]
        \cup [type : {"code"}, value : {<< "a" >>}]

HoverContents ==
    {<< >>} \cup {<< c >> : c \in Contents} \cup {<< c, d >> : c, d \in Contents}

HoverLists == UNION {[1..n -> [contents : HoverContents]] : n \in 0..MaxHovers}

\* hovers.flatMap(hover => hover.contents)
RECURSIVE FlatContents(_)
FlatContents(hovers) ==
    IF Len(hovers) = 0 THEN << >>
    ELSE hovers[1].contents \o FlatContents(Tail(hovers))

\* getMarkdown(content); appendCodeblock fences the value.
getMarkdown(content) ==
    IF content.type \in {"string", "markdown"} THEN content.value
    ELSE << "fence", "lang", "\n" >> \o content.value \o << "\n", "fence" >>

\* content => content.length > 0
NotEmpty(string) == Len(string) > 0

KeptParts(hovers) ==
    LET contents == FlatContents(hovers) IN
    SelectSeq([i \in 1..Len(contents) |-> getMarkdown(contents[i])], NotEmpty)

NotBlank(piece) == piece # Blank

\* The markdown parser: blank text yields no markup, every other piece its
\* element.
MarkedParse(markdown) == Marked(SelectSeq(markdown, NotBlank))

IsSafe(element) == element.html # "<script>"

\* A render that returns what the parser produced.
Sanitize_Skip(sanitizer, html) == html

\* purify.sanitize(html) removes what is not safe; marked's sanitize option
\* escapes it.
Sanitize(sanitizer, html) ==
    IF sanitizer = "purify" THEN SelectSeq(html, IsSafe)
    ELSE [i \in 1..Len(html) |->
             IF IsSafe(html[i]) THEN html[i] ELSE [html |-> "&lt;script&gt;"]]

NotParsed == [called |-> FALSE, markdown |-> << >>]

\* render(document, hovers): the markup returned and what the parser was
\* given.
renderHovers(sanitizer, hovers) ==
    LET parts == KeptParts(hovers)
        markdown == Join(parts, << "\n---\n" >>)
    IN  IF Len(parts) = 0 THEN [value |-> << >>, parsed |-> NotParsed]
        ELSE [value |-> Sanitize(sanitizer, MarkedParse(markdown)),
              parsed |-> [called |-> TRUE, markdown |-> markdown]]

RenderInit ==
    /\ arg \in [version : {"purify", "marked"}, hovers : HoverLists]
    /\ result = NotRun

RenderHovers ==
    /\ result = NotRun
    /\ LET r == renderHovers(arg.version, arg.hovers)
       IN  result' = [ran |-> TRUE, value |-> r.value, parsed |-> r.parsed]
    /\ UNCHANGED <<arg, ctlVars, panelVars, keyVars, raceVars, themeVars>>

(***************************************************************************)
(* From the renderer to the posted message (docsView.ts 320-373, the       *)
(* signature provider 134-189)                                             *)
(***************************************************************************)

RenderRequests == [version : {"purify", "marked"}, hovers : HoverLists]

IsHoverRequest(a) == "hovers" \in DOMAIN a

PostInit ==
    /\ arg \in RenderRequests \cup SignatureHelps
    /\ result = NotRun

\* getHtmlContentForActiveEditor with an editor and a token that is not
\* cancelled: the provider's answer is rendered, '' when it is empty.
GetHtmlContent ==
    /\ result = NotRun
    /\ result' =
          [ran |-> TRUE, posted |-> NoMsg,
           html |-> IF IsHoverRequest(arg)
                    THEN (IF Len(arg.hovers) > 0
                          THEN renderHovers(arg.version, arg.hovers).value ELSE << >>)
                    ELSE (IF Len(arg.signatures) > 0
                          THEN renderSignature(arg) ELSE << >>)]
    /\ UNCHANGED <<arg, ctlVars, panelVars, keyVars, raceVars, themeVars>>

\* The updatePromise of the current fetch posts the html.
PostHtml ==
    /\ result # NotRun
    /\ result.posted = NoMsg
    /\ \E updateMode \in UpdateModes :
          result' = [result EXCEPT !.posted =
                        IF Len(result.html) > 0
                        THEN [type |-> "update", body |-> result.html,
                              updateMode |-> updateMode]
                        ELSE [type |-> "noContent", body |-> NoContentBody,
                              updateMode |-> updateMode]]
    /\ UNCHANGED <<arg, ctlVars, panelVars, keyVars, raceVars, themeVars>>

(***************************************************************************)
(* The CodeHighlighter and the colour theme (codeHighlighter.ts 10-117     *)
(* and 132-158)                                                            *)
(***************************************************************************)

\* The names in defaultThemesMap.
DefaultThemes == {"Default Light+", "Default Dark+"}

\* Themes that an installed extension contributes: getCurrentThemePath
\* finds their file.
ExtensionThemes == {"Monokai", "Abyss"}

\* The values of workbench.colorTheme: the themes above and a name that no
\* installed extension contributes.
ThemeNames == DefaultThemes \cup ExtensionThemes \cup {"Unknown"}

\* getShikiTheme() with workbench.colorTheme = name: a theme of shiki, the
\* theme loaded from the extension's file, or undefined.
getShikiTheme(name) ==
    IF name = "Default Light+" THEN "light-plus"
    ELSE IF name = "Default Dark+" THEN "dark-plus"
    ELSE IF name \in ExtensionThemes THEN name
    ELSE "undefined"

\* (await CodeHighlighter.getShikiTheme()) ?? 'dark-plus'
ThemeFor(name) ==
    IF getShikiTheme(name) = "undefined" THEN "dark-plus" ELSE getShikiTheme(name)

\* getShikiTheme() awaits getDefaultForeground, which reads the theme file,
\* for the themes of extensions only; for the others update() goes on in
\* the microtasks of the call.
ReadsFile(name) == name \in ExtensionThemes

ReloadSlots == 1..MaxReloads

\* this._highlighter = shiki.getHighlighter({ theme }), followed by
\* this._needsRender.fire() if the call came from the configuration
\* listener.  rendered is the highlighter the listeners of needsRender find.
Install(h, theme, fires) ==
    [h EXCEPT !._highlighter = theme,
              !.rendered = IF fires THEN theme ELSE @]

\* update() is called with workbench.colorTheme = name: it goes on at once,
\* or waits for the theme file as the first reload not in use.
StartUpdate(h, name, fires) ==
    IF ReadsFile(name)
    THEN LET s == CHOOSE t \in ReloadSlots :
                      h.reloads[t] = Idle /\ \A u \in ReloadSlots : h.reloads[u] = Idle => t <= u
         IN  [h EXCEPT !.reloads[s] = [theme |-> getShikiTheme(name), fires |-> fires]]
    ELSE Install(h, ThemeFor(name), fires)

\* The object before the constructor calls update().
NewHighlighter ==
    [_highlighter |-> "undefined", reloads |-> [s \in ReloadSlots |-> Idle],
     rendered |-> "undefined"]

\* The highlighter is left alone.
ThemeIdle ==
    /\ colorTheme = "Default Dark+"
    /\ codeHighlighter = StartUpdate(NewHighlighter, "Default Dark+", FALSE)

\* The state after the constructor: this.update() has read the theme.
ThemeInit ==
    /\ colorTheme \in ThemeNames
    /\ codeHighlighter = StartUpdate(NewHighlighter, colorTheme, FALSE)

\* onDidChangeConfiguration with workbench.colorTheme affected:
\* this.update().then(() => this._needsRender.fire()).
DidChangeColorTheme(name) ==
    /\ name # colorTheme
    /\ \E s \in ReloadSlots : codeHighlighter.reloads[s] = Idle
    /\ colorTheme' = name
    /\ codeHighlighter' = StartUpdate(codeHighlighter, name, TRUE)
    /\ UNCHANGED <<ctlVars, panelVars, keyVars, raceVars, fnVars>>

\* The theme file of a waiting update() has been read: update() goes on.
ForegroundRead(s) ==
    /\ codeHighlighter.reloads[s] # Idle
    /\ codeHighlighter' =
          Install([codeHighlighter EXCEPT !.reloads[s] = Idle],
                  codeHighlighter.reloads[s].theme, codeHighlighter.reloads[s].fires)
    /\ UNCHANGED <<colorTheme, ctlVars, panelVars, keyVars, raceVars, fnVars>>

(***************************************************************************)
(* Specifications                                                          *)
(***************************************************************************)

\* The provider before the view is resolved, no editor open.
CtlIdle ==
    /\ variant = "boolean"
    /\ activeTextEditor = NoEditor
    /\ version = [d \in Docs |-> 1]
    /\ provider = [_view |-> FALSE, description |-> "",
                   _currentCacheKey |-> cacheKeyNone, _loading |-> 0,
                   _pin |-> NoPin, _pinned |-> FALSE, _updateMode |-> "live"]
    /\ fetches = [s \in Slots |-> Idle]
    /\ called = NotCalled

Init == CtlInit /\ PanelInit /\ KeyIdle /\ RaceIdle /\ ThemeIdle /\ FnIdle

Next ==
    \/ ResolveWebviewView
    \/ DidDispose
    \/ DidChangeVisibility
    \/ NeedsRender
    \/ \E position \in Position : DidChangeTextEditorSelection(position)
    \/ \E editor \in Editors \cup {NoEditor} : DidChangeActiveTextEditor(editor)
    \/ \E d \in Docs, contentChanges \in Batches : DidChangeTextDocument(d, contentChanges)
    \/ \E mode \in UpdateModes : DidChangeConfiguration(mode)
    \/ Pin
    \/ Unpin
    \/ \E s \in Slots, ready \in BOOLEAN : ProviderReturns(s, ready)
    \/ \E s \in Slots : RenderDone(s)
    \/ \E s \in Slots : ProviderThrows(s)

Spec == Init /\ [][Next]_vars

\* The provider command of every fetch answers or fails in the end, and a
\* render that waits for the highlighter gets it.
Fairness ==
    \A s \in Slots :
        /\ WF_vars(\E ready \in BOOLEAN : ProviderReturns(s, ready) \/ ProviderThrows(s))
        /\ WF_vars(RenderDone(s))

SpecLive == Init /\ [][Next]_vars /\ Fairness

\* The provider that pins a position (docsView.ts 17-396).
InitPos == Init /\ variant = "position"

SpecPos == InitPos /\ [][Next]_vars

\* The providers that pin with a flag (docsView.ts 474-669, baseView.ts).
InitBool == Init /\ variant = "boolean"

SpecBool == InitBool /\ [][Next]_vars

PanelNext ==
    \/ \E message \in Messages : PanelReceive(message)
    \/ PanelReload

InitPanel == CtlIdle /\ PanelInit /\ KeyIdle /\ RaceIdle /\ ThemeIdle /\ FnIdle

SpecPanel == InitPanel /\ [][PanelNext]_vars

KeyNext == KeyCompare

InitKey == CtlIdle /\ PanelInit /\ KeyInit /\ RaceIdle /\ ThemeIdle /\ FnIdle

SpecKey == InitKey /\ [][KeyNext]_vars

RaceNext ==
    \/ RaceUpdate
    \/ \E s \in RaceSlots : RaceSettles(s)
    \/ \E s \in RaceSlots : RaceRejects(s)
    \/ \E s \in RaceSlots : RaceTimerFires(s)
    \/ \E s \in RaceSlots : RaceCollect(s)

InitRace == CtlIdle /\ PanelInit /\ KeyIdle /\ RaceIdle /\ ThemeIdle /\ FnIdle

SpecRace == InitRace /\ [][RaceNext]_vars

\* The position-pin provider before the view is resolved, no editor open.
PosIdle ==
    /\ variant = "position"
    /\ activeTextEditor = NoEditor
    /\ version = [d \in Docs |-> 1]
    /\ provider = [_view |-> FALSE, description |-> "",
                   _currentCacheKey |-> cacheKeyNone, _loading |-> 0,
                   _pin |-> NoPin, _pinned |-> FALSE, _updateMode |-> "live"]
    /\ fetches = [s \in Slots |-> Idle]
    /\ called = NotCalled

PinNext == PinTranslate

InitPin == PosIdle /\ PanelInit /\ KeyIdle /\ RaceIdle /\ ThemeIdle /\ PinInit

SpecPin == InitPin /\ [][PinNext]_vars

BatchNext ==
    \/ BatchTranslate
    \/ \E change \in BatchChanges : BatchTranslateAgain(change)
    \/ \E position \in PinPositions : BatchPin(position)

ChangeNext == TextChange \/ UpdateAfterChange

InitChange == PosIdle /\ PanelInit /\ KeyIdle /\ RaceIdle /\ ThemeIdle /\ ChangeInit

SpecChange == InitChange /\ [][ChangeNext]_vars

InitBatch == PosIdle /\ PanelInit /\ KeyIdle /\ RaceIdle /\ ThemeIdle /\ BatchInit

SpecBatch == InitBatch /\ [][BatchNext]_vars

HighlightNext == Highlight

InitHighlight == CtlIdle /\ PanelInit /\ KeyIdle /\ RaceIdle /\ ThemeIdle /\ HighlightInit

SpecHighlight == InitHighlight /\ [][HighlightNext]_vars

SignatureNext == RenderSignature

InitSignature == CtlIdle /\ PanelInit /\ KeyIdle /\ RaceIdle /\ ThemeIdle /\ SignatureInit

SpecSignature == InitSignature /\ [][SignatureNext]_vars

RenderNext == RenderHovers

InitRender == CtlIdle /\ PanelInit /\ KeyIdle /\ RaceIdle /\ ThemeIdle /\ RenderInit

SpecRender == InitRender /\ [][RenderNext]_vars

PostNext == GetHtmlContent \/ PostHtml

InitPost == CtlIdle /\ PanelInit /\ KeyIdle /\ RaceIdle /\ ThemeIdle /\ PostInit

SpecPost == InitPost /\ [][PostNext]_vars

ThemeNext ==
    \/ \E name \in ThemeNames : DidChangeColorTheme(name)
    \/ \E s \in ReloadSlots : ForegroundRead(s)

InitTheme == CtlIdle /\ PanelInit /\ KeyIdle /\ RaceIdle /\ FnIdle /\ ThemeInit

SpecTheme == InitTheme /\ [][ThemeNext]_vars

(***************************************************************************)
(* Properties                                                              *)
(***************************************************************************)

InFlight(s) == fetches[s] # Idle

PinSet == provider._pin.position # Undefined

Unpinned == IF variant = "position" THEN ~PinSet ELSE ~provider._pinned

\* unpin() runs in this step and changes the pin.
UnpinRan ==
    IF variant = "position"
    THEN PinSet /\ provider'._pin.position = Undefined
    ELSE provider._pinned /\ ~provider'._pinned

\* Two word ranges are both absent or have the same start and end.
SameWord(r1, r2) ==
    \/ (r1 = Undefined /\ r2 = Undefined)
    \/ (r1 # Undefined /\ r2 # Undefined /\ r1.start = r2.start /\ r1.end = r2.end)

\* The key is the one of this editor: same document, version and word.
KeyMatches(key, editor, ver) ==
    IF editor = NoEditor THEN key.type = "none"
    ELSE /\ key.type = "document"
         /\ key.url = DocUri(editor.document)
         /\ key.version = ver[editor.document]
         /\ SameWord(key.wordRange, WordRangeAt(editor.document, 2, editor.active))

Cursor == [document |-> activeTextEditor.document, position |-> activeTextEditor.active]

\* C1: a fetch that was in flight when a newer update() started another
\* fetch never posts a message: every message posted, in whatever order the
\* provider calls return, comes from the fetch that was started last.
C1_StaleFetchNeverPosts == called.msg # NoMsg => ~called.stale

\* The older fetch returns after the newer one has committed, and is dropped.
C1_Witness ==
    /\ called.outcome = "discarded"
    /\ provider._view
    /\ provider._loading = 0
    /\ \A s \in Slots : ~InFlight(s)

\* C2: at most one fetch is in flight with a token that is not cancelled,
\* and every fetch that was in flight when update() created a newer token
\* has been cancelled.
C2_AtMostOneLiveFetch ==
    /\ Cardinality({s \in Slots : InFlight(s) /\ ~fetches[s].cancelled}) <= 1
    /\ \A s \in Slots : (InFlight(s) /\ fetches[s].stale) => fetches[s].cancelled

\* Two fetches are in flight, the older one cancelled.
C2_Witness ==
    \E s, t \in Slots :
        /\ InFlight(s) /\ fetches[s].cancelled
        /\ InFlight(t) /\ ~fetches[t].cancelled

\* C3: in the boolean-pin providers no message is posted while the view is
\* pinned.
C3_NoPostWhilePinned ==
    (variant = "boolean" /\ provider._pinned) => called.msg = NoMsg

\* C4: in the position-pin provider, while a pin is set on a document that
\* was never edited, every message posted carries the documentation of the
\* pinned position ('noContent' only if that position has none).
C4_PinnedDocsPosted ==
    (variant = "position" /\ PinSet /\ version[provider._pin.document] = 1
        /\ called.msg # NoMsg)
    => LET html == Render(HoverAt(provider._pin.document, provider._pin.position)) IN
       IF Len(html) > 0
       THEN called.msg.type = "update" /\ called.msg.body = html
       ELSE called.msg.type = "noContent"

\* C5: in the position-pin provider, when unpin() runs on a resolved view
\* while the cursor is on a position whose documentation differs from the
\* pinned one, unpin() starts a fetch for the cursor position.
C5_UnpinFetchesForCursor ==
    [][(/\ variant = "position"
        /\ UnpinRan
        /\ provider._view
        /\ activeTextEditor # NoEditor
        /\ HoverAt(Cursor.document, Cursor.position)
               # HoverAt(provider._pin.document, provider._pin.position))
       => \E s \in Slots : /\ ~InFlight(s)
                           /\ fetches'[s] # Idle
                           /\ fetches'[s].query = Cursor]_vars

\* C6: as long as every 'noContent' message received since the most recent
\* 'update' message had updateMode 'sticky', the panel displays the body of
\* that most recent 'update' message; in particular an 'update' message
\* always replaces the content.
C6_StickyKeepsLastUpdate ==
    LET n == Len(received)
        u == CHOOSE i \in 0..n :
                 /\ i > 0 => received[i].type = "update"
                 /\ \A j \in (i + 1)..n : received[j].type # "update"
    IN  (u > 0 /\ \A j \in (u + 1)..n : received[j].updateMode = "sticky")
        => panel.innerHTML = received[u].body

\* An 'update' and then a sticky 'noContent': the update's body is displayed.
C6_Witness ==
    /\ Len(received) = 2
    /\ received[1].type = "update"
    /\ received[2].type = "noContent" /\ received[2].updateMode = "sticky"
    /\ panel.innerHTML = received[1].body

\* C7: after messages that all had updateMode 'live', the panel displays
\* what the last message says: its body for 'update', the placeholder with
\* its text for 'noContent'.
C7_LiveLastMessageDecides ==
    LET n == Len(received) IN
    (n > 0 /\ \A i \in 1..n : received[i].updateMode = "live")
    => panel.innerHTML =
          IF received[n].type = "update" THEN received[n].body
          ELSE << [tag |-> "p", class |-> "no-content", text |-> received[n].body] >>

\* A live 'update' and then a live 'noContent': the placeholder is displayed.
C7_Witness ==
    /\ Len(received) = 2
    /\ received[1].type = "update" /\ received[1].updateMode = "live"
    /\ received[2].type = "noContent" /\ received[2].updateMode = "live"
    /\ panel.innerHTML # received[1].body

C9_DocumentKeysEqualIff ==
    (keyEq.done /\ keyA.type = "document" /\ keyB.type = "document")
    => (keyEq.result <=> /\ UriToString(keyA.url) = UriToString(keyB.url)
                         /\ keyA.version = keyB.version
                         /\ SameWord(keyA.wordRange, keyB.wordRange))

\* Two keys created from editors on the same word compare equal.
C9_Witness ==
    /\ keyEq.done /\ keyEq.created /\ keyEq.result
    /\ keyA.type = "document" /\ keyB.type = "document"
    /\ ~SameObject(keyA, keyB)
    /\ keyA.wordRange # Undefined

\* C10: on a resolved, unpinned view a cursor move or editor change whose
\* new key matches the committed key changes nothing in the provider,
\* leaves the fetches in flight as they are and posts no message.
C10_CacheHitIsNoOp ==
    [][(/\ activeTextEditor' # activeTextEditor
        /\ provider._view
        /\ Unpinned
        /\ KeyMatches(provider._currentCacheKey, activeTextEditor', version))
       => (provider' = provider /\ fetches' = fetches /\ called'.msg = NoMsg)]_vars

\* A cursor move inside a word while the fetch for that word is in flight.
C10_Witness ==
    /\ called.op = "selection"
    /\ called.outcome = "cacheHit"
    /\ provider._view
    /\ Unpinned
    /\ activeTextEditor.document = "d1"
    /\ \E s \in Slots : InFlight(s) /\ ~fetches[s].cancelled

Racing(s) == races[s] # Idle

\* C11: for a fetch that commits its result before its timer fires,
\* withProgress is never invoked.
C11_NoProgressAfterCommit ==
    \A s \in RaceSlots :
        (Racing(s) /\ races[s].fetch = "committed"
            /\ races[s].atFire \in {"unfired", "settled"})
        => races[s].progress = "none"

\* C12: a timer that fires while its fetch is in flight with the token not
\* cancelled shows the progress, which lasts exactly until the updatePromise
\* settles; a timer that fires with the token cancelled shows none; none is
\* shown before the timer fires.
C12_ProgressWhileLoading ==
    \A s \in RaceSlots : Racing(s) =>
        /\ races[s].atFire = "loading"
              => races[s].progress =
                    IF races[s].fetch = "loading" THEN "shown" ELSE "ended"
        /\ races[s].atFire = "cancelled" => races[s].progress = "none"
        /\ races[s].timer = "pending" => races[s].progress = "none"

\* The progress was shown for a fetch in flight and ended when it settled,
\* while the timer of a cancelled fetch fired without showing any.
C12_Witness ==
    \E s, t \in RaceSlots :
        /\ Racing(s) /\ races[s].atFire = "loading" /\ races[s].progress = "ended"
        /\ Racing(t) /\ races[t].atFire = "cancelled" /\ races[t].progress = "none"

\* The edit whose effect on the pin `result` holds.
Edit == arg.change

NewlinesIn(text) == Cardinality({i \in 1..Len(text) : text[i] = "\n"})

IsInsertion(change) == change.range.start = change.range.end /\ Len(change.text) > 0

\* C13: one pure insertion that starts on a line strictly above the pinned
\* line leaves the pin set and moves it down by the number of line breaks
\* inserted, at the same character.
C13_InsertionAbovePin ==
    (result.ran /\ IsInsertion(Edit) /\ Edit.range.start.line < arg.position.line)
    => /\ result._pin.document = "d1"
       /\ result._pin.position =
             [line |-> arg.position.line + NewlinesIn(Edit.text),
              character |-> arg.position.character]

\* A line break inserted at (1, 0) moves the pin from (2, 2) to (3, 2).
C13_Witness ==
    /\ result.ran
    /\ arg.position = [line |-> 2, character |-> 2]
    /\ Edit.range.start = [line |-> 1, character |-> 0]
    /\ Edit.range.end = [line |-> 1, character |-> 0]
    /\ Edit.text = << "\n" >>
    /\ result._pin.position = [line |-> 3, character |-> 2]

\* C14: an edit that replaces a range of the pinned line with start
\* character <= pinned character < end character clears the pin: position
\* and document are absent and the view is not marked as pinned.
C14_OverwrittenPinCleared ==
    (result.ran
        /\ Edit.range.start.line = arg.position.line
        /\ Edit.range.end.line = arg.position.line
        /\ Edit.range.start.character <= arg.position.character
        /\ arg.position.character < Edit.range.end.character)
    => (result._pin = NoPin /\ result.description = "")

\* The range (2, 0)-(2, 2) is replaced while the pin is at (2, 1).
C14_Witness ==
    /\ result.ran
    /\ arg.position = [line |-> 2, character |-> 1]
    /\ Edit.range.start = [line |-> 2, character |-> 0]
    /\ Edit.range.end = [line |-> 2, character |-> 2]
    /\ Len(Edit.text) > 0
    /\ result._pin = NoPin

\* a is before b in document order.
StrictlyBefore(a, b) == a.line < b.line \/ (a.line = b.line /\ a.character < b.character)

\* C15: an edit whose range spans several lines, starts before the pin and
\* ends after it clears the pin.
C15_MultiLineOverwriteClears ==
    (result.ran
        /\ Edit.range.start.line < Edit.range.end.line
        /\ StrictlyBefore(Edit.range.start, arg.position)
        /\ StrictlyBefore(arg.position, Edit.range.end))
    => result._pin = NoPin

\* The reference model of an edit: the pinned document as one text, the edit
\* applied to it, and the place of the pinned character in the outcome.
PinDocument ==
    [i \in 1..((MaxPinCoord + 1) * (PinLineLength + 1)) |->
        IF i % (PinLineLength + 1) = 0 THEN "\n" ELSE "a"]

\* The number of characters in front of a position of the pinned document.
OffsetOf(position) == position.line * (PinLineLength + 1) + position.character

\* The pinned character is the one that follows the pinned position.
Removes(change, position) ==
    /\ OffsetOf(change.range.start) <= OffsetOf(position)
    /\ OffsetOf(position) < OffsetOf(change.range.end)

Edited(change) ==
    SubSeq(PinDocument, 1, OffsetOf(change.range.start))
        \o change.text
        \o SubSeq(PinDocument, OffsetOf(change.range.end) + 1, Len(PinDocument))

OffsetAfter(change, position) ==
    IF OffsetOf(position) < OffsetOf(change.range.start) THEN OffsetOf(position)
    ELSE OffsetOf(position)
            - (OffsetOf(change.range.end) - OffsetOf(change.range.start))
            + Len(change.text)

\* The line and character of the position with `offset` characters in front.
PositionAt(text, offset) ==
    LET breaks == {i \in 1..offset : text[i] = "\n"}
        last == IF breaks = {} THEN 0
                ELSE CHOOSE i \in breaks : \A j \in breaks : j <= i
    IN  [line |-> Cardinality(breaks), character |-> offset - last]

\* C16: after one edit that does not remove the pinned character the pin is
\* at the place of that character in the edited document.
C16_PinFollowsCharacter ==
    (result.ran /\ ~Removes(Edit, arg.position))
    => result._pin.position = PositionAt(Edited(Edit), OffsetAfter(Edit, arg.position))

\* C17: when the provider call of the current fetch throws, a 'noContent'
\* message is posted for the fetch and update() does not reject.
C17_ThrowIsNoContent ==
    called.op = "ProviderThrows"
    => (called.msg.type = "noContent" /\ called.outcome # "rejected")

\* The language the callback highlights with.
CallbackLanguage == IF arg.inputLanguage # "" THEN arg.inputLanguage ELSE arg.languageId

\* The engine throws, has no grammar for the language, or is not loaded.
CannotHighlight ==
    \/ arg.engine = "throws"
    \/ ~arg.highlighter
    \/ (IF arg.version = "getLanguageId" THEN getLanguageId(CallbackLanguage)
        ELSE CallbackLanguage) \notin EngineLanguages

\* C18: the highlight callback never throws; when the engine throws, the
\* language is not supported or no highlighter is loaded, it returns the
\* code unchanged, and the code block of the render is produced.
C18_HighlightNeverThrows ==
    result.ran
    => /\ ~result.threw
       /\ result.rendered
       /\ CannotHighlight => result.value = RawCode(arg.code)

\* The engine threw on a language with a grammar and the code came back.
C18_Witness ==
    /\ result.ran
    /\ arg.highlighter /\ arg.engine = "throws" /\ arg.inputLanguage = "ts"
    /\ Len(arg.code) > 0
    /\ result.value = RawCode(arg.code)

\* The label and documentation pieces of a markup, in its order, as
\* <<kind, signature number>>.
RECURSIVE BlocksIn(_)
BlocksIn(markup) ==
    IF Len(markup) = 0 THEN << >>
    ELSE (IF markup[1].html.kind \in {"label", "documentation"}
          THEN << << markup[1].html.kind, markup[1].html.index >> >> ELSE << >>)
         \o BlocksIn(Tail(markup))

\* The block of signature number index: its label, then its documentation.
BlockOf(index) ==
    << << "label", index >> >>
    \o (IF HasDocumentation(arg.signatures[index + 1])
        THEN << << "documentation", index >> >> ELSE << >>)

RECURSIVE BlocksOf(_)
BlocksOf(indices) ==
    IF Len(indices) = 0 THEN << >> ELSE BlockOf(indices[1]) \o BlocksOf(Tail(indices))

\* The signature numbers from index on, without the active one.
RECURSIVE OthersFrom(_)
OthersFrom(index) ==
    IF index >= Len(arg.signatures) THEN << >>
    ELSE (IF index = arg.activeSignature THEN << >> ELSE << index >>)
         \o OthersFrom(index + 1)

ActiveFirst ==
    (IF arg.activeSignature < Len(arg.signatures) THEN << arg.activeSignature >> ELSE << >>)
    \o OthersFrom(0)

\* C19: renderSignature emits the block of every signature once, the active
\* signature's block first and the others after it in their original order,
\* and the empty string when there is no signature.
C19_ActiveSignatureFirst ==
    result.ran
    => /\ BlocksIn(result.value) = BlocksOf(ActiveFirst)
       /\ Len(arg.signatures) = 0 => result.value = << >>

\* Three signatures, the last one active and documented.
C19_Witness ==
    /\ result.ran
    /\ Len(arg.signatures) = 3
    /\ arg.activeSignature = 2
    /\ HasDocumentation(arg.signatures[3])
    /\ BlocksIn(result.value) =
          << << "label", 2 >>, << "documentation", 2 >> >> \o BlocksOf(<< 0, 1 >>)

\* The fragments of the hover list.
Fragments == FlatContents(arg.hovers)

\* Every fragment is a string that is empty or made of blanks.
AllBlank ==
    \A i \in 1..Len(Fragments) :
        /\ Fragments[i].type # "code"
        /\ \A j \in 1..Len(Fragments[i].value) : Fragments[i].value[j] = Blank

\* C20: render returns the empty string when the hovers have no fragment or
\* only empty and whitespace-only ones, and the parser is not given them.
C20_BlankFragmentsDropped ==
    (result.ran /\ AllBlank) => (result.value = << >> /\ ~result.parsed.called)

\* An element of a posted body that the sanitizer would not let through.
UnsafeIn(body) ==
    \E i \in 1..Len(body) :
        IF IsHoverRequest(arg) THEN body[i].html = "<script>"
        ELSE body[i].html.text = "<script>"

\* The request has a fragment or a documentation with an unsafe element.
UnsafeRequest ==
    IF IsHoverRequest(arg)
    THEN \E i \in 1..Len(FlatContents(arg.hovers)) :
            FlatContents(arg.hovers)[i].value = << "<script>" >>
    ELSE \E i \in 1..Len(arg.signatures) : arg.signatures[i].documentation = "<script>"

\* C21: the body of every posted 'update' message has gone through the
\* sanitizer: it holds no element the sanitizer removes or escapes.
C21_PostedBodySanitized ==
    (result # NotRun /\ result.posted.type = "update") => ~UnsafeIn(result.posted.body)

\* A hover with an unsafe element and a word was rendered and posted.
C21_Witness ==
    /\ result # NotRun
    /\ result.posted.type = "update"
    /\ UnsafeRequest
    /\ IsHoverRequest(arg)
    /\ ~UnsafeIn(result.posted.body)

\* C22: a reload of the panel that has displayed a message of this session
\* (the body of an 'update', or the placeholder) displays the same again.
C22_ReloadRestoresDisplay ==
    [][(panel.hasUpdated /\ received' = << >>) => panel'.innerHTML = panel.innerHTML]_vars

\* Fetch s is the current one: in flight, its token not cancelled, and
\* this._loading is its entry.
Current(s) == InFlight(s) /\ ~fetches[s].cancelled /\ provider._loading = s

\* The current fetch s returns in this step (it does not throw).
Returns(s) == Current(s) /\ fetches'[s] = Idle /\ called'.op # "ProviderThrows"

\* The message for the answer to the query of fetch s.
MessageFor(s) ==
    LET hovers == HoverAt(fetches[s].query.document, fetches[s].query.position) IN
    IF Len(hovers) > 0
    THEN [type |-> "update", body |-> Render(hovers), updateMode |-> provider._updateMode]
    ELSE [type |-> "noContent", body |-> NoContentBody, updateMode |-> provider._updateMode]

ForcedUpdate ==
    \/ ResolveWebviewView
    \/ (provider._view /\ DidChangeVisibility)
    \/ (provider._view /\ NeedsRender)

\* A fetch starts in this step: a new entry is the current one after it, or,
\* with no editor, the fetch has already posted its 'noContent'.
FetchStarts ==
    \/ \E t \in Slots : ~InFlight(t) /\ Current(t)'
    \/ /\ activeTextEditor' = NoEditor
       /\ called'.msg.type = "noContent"
       /\ provider'._loading = 0

\* C24: a forced update() on a resolved, unpinned view cancels the fetch in
\* flight, if there is one, and starts a new fetch, whatever the cache keys.
C24_ForcedUpdateRefetches ==
    [][(ForcedUpdate /\ Unpinned) =>
          /\ \A s \in Slots : Current(s) => (InFlight(s)' /\ fetches'[s].cancelled)
          /\ FetchStarts]_vars

\* Two fetches for the same place of an unedited document: the earlier one
\* cancelled, the later one current.
C24_Witness ==
    /\ \A d \in Docs : version[d] = 1
    /\ Unpinned
    /\ \E s, t \in Slots :
          /\ InFlight(s) /\ fetches[s].cancelled
          /\ Current(t)
          /\ fetches[s].phase = "provider" /\ fetches[t].phase = "provider"
          /\ fetches[s].query = fetches[t].query

\* C25: the committed cache key changes only in a step in which a fetch
\* commits its result to the panel; the start of a fetch, and a fetch that
\* is superseded, cancelled or fails, leave it as it was.
C25_KeyChangesOnlyOnCommit ==
    [][provider'._currentCacheKey # provider._currentCacheKey => called'.msg # NoMsg]_vars

\* The token of fetch s is cancelled in this step.
Cancels(s) == InFlight(s) /\ ~fetches[s].cancelled /\ InFlight(s)' /\ fetches'[s].cancelled

\* C26: a fetch starts with a token that is not cancelled, and a token is
\* cancelled only in a step of update() that takes its entry out of
\* this._loading, where it was, and starts another fetch.
C26_CancelThenReplace ==
    [][\A s \in Slots :
          /\ (~InFlight(s) /\ InFlight(s)') => ~fetches'[s].cancelled
          /\ Cancels(s) =>
                /\ provider._loading = s
                /\ provider'._loading # s
                /\ FetchStarts]_vars

\* A cancelled fetch and the fetch for another place that replaced it.
C26_Witness ==
    \E s, t \in Slots :
        /\ InFlight(s) /\ fetches[s].cancelled /\ fetches[s].phase = "provider"
        /\ Current(t) /\ fetches[t].phase = "provider"
        /\ fetches[s].query # fetches[t].query

\* A step of a handler that calls update() without forcing it.
UnforcedUpdate ==
    \/ \E position \in Position : DidChangeTextEditorSelection(position)
    \/ \E editor \in Editors \cup {NoEditor} : DidChangeActiveTextEditor(editor)

\* C27: in the boolean-pin providers an update() that is not forced, on a
\* resolved and pinned view, starts and cancels no fetch, posts nothing and
\* changes nothing of the provider but the description, which it sets.
C27_PinnedUpdateOnlyTitle ==
    [][(variant = "boolean" /\ provider._view /\ provider._pinned /\ UnforcedUpdate) =>
          /\ fetches' = fetches
          /\ called'.msg = NoMsg
          /\ provider' = [provider EXCEPT !.description = "(pinned)"]]_vars

\* A pinned view whose committed key is the one of an earlier cursor: the
\* editor has moved since and nothing was fetched.
C27_Witness ==
    /\ variant = "boolean"
    /\ provider._view /\ provider._pinned
    /\ provider.description = "(pinned)"
    /\ provider._currentCacheKey.type = "document"
    /\ \A d \in Docs : version[d] = 1
    /\ activeTextEditor # NoEditor
    /\ ~KeyMatches(provider._currentCacheKey, activeTextEditor, version)
    /\ \A s \in Slots : ~InFlight(s)

\* C28: a pure insertion exactly at the pinned position does not overwrite
\* the pin: the pin is still set after it.
C28_InsertionAtPinKeepsPin ==
    (result.ran /\ IsInsertion(Edit) /\ Edit.range.start = arg.position)
    => result._pin.position # Undefined

\* What getTranslationTo returns for the pin and the edit.
Translation == getTranslationTo(arg.position, << Edit >>)

\* C29: an edit that starts at or before the pinned line and does not
\* overwrite the pin contributes the line delta: for a pure insertion the
\* number of line breaks in the text, also when it is on the pinned line;
\* for a deletion or replacement minus the number of lines of the range.
C29_LineDelta ==
    (result.ran /\ Edit.range.start.line <= arg.position.line
        /\ ~Translation.pinWasOverwritten)
    => Translation.lineDelta =
          IF IsInsertion(Edit) THEN NewlinesIn(Edit.text)
          ELSE 0 - (Edit.range.end.line - Edit.range.start.line)

\* The edit starts on the pinned line and ends at or before the pinned
\* character.
EndsBeforePin ==
    /\ Edit.range.start.line = arg.position.line
    /\ Edit.range.end.line = arg.position.line
    /\ Edit.range.end.character <= arg.position.character

\* C30: an edit contributes a character delta exactly when it starts on the
\* pinned line and ends at or before the pinned character: for a pure
\* insertion the length of the text, or 0 if the text ends with a line
\* break, for a deletion start character minus end character; such an edit
\* does not clear the pin.
C30_CharacterDelta ==
    result.ran
    => /\ EndsBeforePin =>
             /\ ~Translation.pinWasOverwritten
             /\ IsInsertion(Edit) =>
                   Translation.characterDelta =
                      IF Edit.text[Len(Edit.text)] = "\n" THEN 0 ELSE Len(Edit.text)
             /\ Len(Edit.text) = 0 =>
                   Translation.characterDelta =
                      Edit.range.start.character - Edit.range.end.character
       /\ (~EndsBeforePin /\ ~Translation.pinWasOverwritten) => Translation.characterDelta = 0

\* The edit alone overwrites the pin at position.
Overwrites(position, change) ==
    getTranslationTo(position, << change >>).pinWasOverwritten

\* C31: when one edit of an event overwrites the pinned position, the pin
\* is cleared, whatever the other edits of the event are and wherever the
\* edit stands among them.
C31_OverwriteInBatchClears ==
    (result.ran /\ \E i \in 1..Len(arg.changes) : Overwrites(arg.position, arg.changes[i]))
    => (result._pin.position = Undefined /\ result.outcome # "throw")

\* The overwriting edit is the last of two; the first one, alone, would
\* have moved the pin to another line.
C31_Witness ==
    /\ result.ran
    /\ Len(arg.changes) = 2
    /\ ~Overwrites(arg.position, arg.changes[1])
    /\ getTranslationTo(arg.position, << arg.changes[1] >>).lineDelta > 0
    /\ Overwrites(arg.position, arg.changes[2])
    /\ result._pin.position = Undefined

\* Where the edit arg.change moves the pin arg.position: nowhere if it
\* overwrites it.
TranslatedPin ==
    LET t == getTranslationTo(arg.position, << arg.change >>) IN
    IF t.pinWasOverwritten THEN Undefined
    ELSE PositionTranslate(arg.position, t.lineDelta, t.characterDelta)

\* C32: every fetch started by a text-change event of the pinned document,
\* or after it, queries the provider at the translated pin (at the cursor
\* if the edit cleared the pin), never at the position the pin had before
\* the edit.
C32_FetchReadsTranslatedPin ==
    (result.ran /\ result.query # Undefined)
    => result.query.position =
          IF TranslatedPin = Undefined THEN arg.active ELSE TranslatedPin

\* The script has started anew and has restored documentation from the
\* persisted state; no message has arrived since.
RestoredDocumentation ==
    /\ received = << >>
    /\ ~panel.hasUpdated
    /\ panel.state # NoState
    /\ ~panel.state.noContent
    /\ Len(panel.innerHTML) > 0

\* C33: after a reload that restored documentation, a 'noContent' message
\* with updateMode 'sticky' that arrives first leaves the restored
\* documentation on display.
C33_StickyKeepsRestored ==
    [][(/\ RestoredDocumentation
        /\ Len(received') = 1
        /\ received'[1].type = "noContent"
        /\ received'[1].updateMode = "sticky")
       => panel'.innerHTML = panel.innerHTML]_vars

StartsAfterPin ==
    \/ Edit.range.start.line > arg.position.line
    \/ /\ Edit.range.start.line = arg.position.line
       /\ Edit.range.start.character > arg.position.character

\* C35: an edit whose range starts after the pinned position leaves the
\* pin where it is, whatever text it inserts.
C35_EditAfterPinKeepsPin ==
    (result.ran /\ StartsAfterPin) => result._pin.position = arg.position

\* The edits of the event in another order.
Reordered(order) == [i \in 1..Len(arg.changes) |-> arg.changes[order[i]]]

Orders ==
    {order \in [1..Len(arg.changes) -> 1..Len(arg.changes)] :
        \A i, j \in 1..Len(arg.changes) : order[i] = order[j] => i = j}

\* The translations of the first n edits, each taken alone against the pin
\* as it was before the event, added up.
RECURSIVE SumOfSingles(_)
SumOfSingles(n) ==
    IF n = 0 THEN [lineDelta |-> 0, characterDelta |-> 0, pinWasOverwritten |-> FALSE]
    ELSE LET rest == SumOfSingles(n - 1)
             one == getTranslationTo(arg.position, << arg.changes[n] >>)
         IN  [lineDelta |-> rest.lineDelta + one.lineDelta,
              characterDelta |-> rest.characterDelta + one.characterDelta,
              pinWasOverwritten |-> rest.pinWasOverwritten \/ one.pinWasOverwritten]

\* C36: getTranslationTo evaluates every edit of an event against the pin
\* as it was before the event, and its result is the same for every order
\* of the edits.
C36_OrderIndependent ==
    result.ran
    => /\ getTranslationTo(arg.position, arg.changes) = SumOfSingles(Len(arg.changes))
       /\ \A order \in Orders :
             getTranslationTo(arg.position, Reordered(order))
                 = getTranslationTo(arg.position, arg.changes)

\* Two edits, the first of which overwrites the pin while the second, on a
\* line above, adds a line.
C36_Witness ==
    /\ result.ran
    /\ Len(arg.changes) = 2
    /\ Overwrites(arg.position, arg.changes[1])
    /\ getTranslationTo(arg.position, << arg.changes[2] >>).lineDelta > 0
    /\ getTranslationTo(arg.position, arg.changes).lineDelta > 0

\* C37: this._loading is set exactly while a fetch that is neither
\* cancelled nor finished is in flight, and it is that fetch: once the
\* fetch started last has finished, with a result or with an error of the
\* provider, this._loading is undefined.
C37_LoadingIffFetchInFlight ==
    /\ provider._loading # 0 => Current(provider._loading)
    /\ \A s \in Slots : (InFlight(s) /\ ~fetches[s].cancelled) => provider._loading = s

\* A listener or command that calls update() runs.
UpdateCalled ==
    \/ NeedsRender
    \/ \E position \in Position : DidChangeTextEditorSelection(position)
    \/ \E editor \in Editors \cup {NoEditor} : DidChangeActiveTextEditor(editor)
    \/ \E d \in Docs, contentChanges \in Batches : DidChangeTextDocument(d, contentChanges)
    \/ Pin
    \/ Unpin

\* With no view resolved update() does nothing.
NoViewNoUpdate ==
    (~provider._view /\ UpdateCalled)
    => /\ fetches' = fetches
       /\ provider'._currentCacheKey = provider._currentCacheKey
       /\ provider'._loading = provider._loading
       /\ called'.msg = NoMsg

\* A fetch that returns while no view is resolved posts nothing.
NoViewNoPost == ~provider._view' => called'.msg = NoMsg

\* The fetches in flight when a view is resolved were started for an
\* earlier view: resolving supersedes them all, so that none of them posts
\* to the new view.
ResolveSupersedes ==
    ResolveWebviewView
    => \A s \in Slots :
          InFlight(s) => (InFlight(s)' /\ Superseded(provider', fetches', s))

\* C38: while no webview view is resolved update() is a no-op, a fetch
\* that returns after its view was disposed posts no message, and no fetch
\* started for a disposed view posts to the view resolved after it.
C38_NoViewNoEffect ==
    [][NoViewNoUpdate /\ NoViewNoPost /\ ResolveSupersedes]_vars

\* C39: in the providers that pin with a flag, a forced update() while
\* pinned (the view is resolved, becomes visible again, or the highlighter
\* asks for a re-render) starts no fetch and posts no message.
C39_PinnedSuppressesForced ==
    [][(variant = "boolean" /\ provider._pinned /\ ForcedUpdate)
       => /\ fetches' = fetches
          /\ called'.msg = NoMsg
          /\ provider'._currentCacheKey = provider._currentCacheKey
          /\ provider'._loading = provider._loading]_vars

\* The view was resolved while pinned, with an editor open: it is titled,
\* and no update() has got as far as the cache key.
C39_Witness ==
    /\ variant = "boolean"
    /\ provider._view /\ provider._pinned
    /\ provider.description = "(pinned)"
    /\ activeTextEditor # NoEditor
    /\ provider._currentCacheKey = cacheKeyNone
    /\ provider._loading = 0
    /\ \A s \in Slots : ~InFlight(s)

\* No update() of the highlighter is waiting for a theme file.
ReloadsDone == \A s \in ReloadSlots : codeHighlighter.reloads[s] = Idle

\* C40: once all reloads have finished, the highlighter is the one built
\* for the theme configured last, and it is the one the listeners of the
\* last needsRender found.
C40_LatestThemeWins ==
    ReloadsDone
    => /\ codeHighlighter._highlighter = ThemeFor(colorTheme)
       /\ codeHighlighter.rendered # "undefined"
             => codeHighlighter.rendered = ThemeFor(colorTheme)

====
